---------------------------- MODULE Spec2Model ----------------------------
(***************************************************************************)
(* Model of @raburski/next-auth-permissions:                               *)
(*   src/permissions.ts        userCan, userCanAny, userCanAll             *)
(*   src/server/config.ts      authFn, permissionConfig, configure/reset   *)
(*   src/server/authUtils.ts   requireAuth, requireUserCan                 *)
(*   src/server/middleware.ts  withAuth, withPermission,                   *)
(*                             withCustomPermission                        *)
(*   src/server/helpers.ts     checkPermission, checkOwnership             *)
(*   src/client/hooks.ts       useRequireAuthenticatedUser,                *)
(*                             useRequireUserCan, PermissionsProvider      *)
(*                                                                         *)
(* Specifications: Spec (one invocation at a time, the configuration      *)
(* changing between invocations), SpecLive (Spec with the awaited parties  *)
(* answering), SpecConcurrent (the configuration changing during an        *)
(* await), SpecPair (two invocations at once), SpecPure (the pure          *)
(* functions) and SpecClient (the hooks).                                  *)
(*                                                                         *)
(* JavaScript values are modelled as follows.  null is the record Null.    *)
(* An object is a function whose DOMAIN is the set of its own keys, so an  *)
(* optional key that was not supplied is simply not in the DOMAIN.  Keys   *)
(* that configurePermissions always writes (isUserActive, activeStatus,    *)
(* messages) and user.status hold Undefined when no value was supplied.    *)
(***************************************************************************)
EXTENDS Integers, Sequences, FiniteSets, TLC

VARIABLES
    authFn,            \* config.ts: let authFn
    permissionConfig,  \* config.ts: let permissionConfig
    call,              \* the invocation in flight: arguments, locals, position
    lastConfigure,     \* history: the argument of the latest
                       \* configurePermissions call; Null before the first
                       \* one, WasReset once resetConfig has followed it
    evaluation,        \* an application of a pure function: arguments, result
    component,         \* a mounted client component that uses a hook
    requests           \* two invocations in flight at once, each with its
                       \* own locals and position

vars == <<authFn, permissionConfig, call, lastConfigure, evaluation, component,
          requests>>

\* The configuration store with its history.
store == <<authFn, permissionConfig, lastConfigure>>

\* What the server-side operations never touch.
elsewhere == <<evaluation, component, requests>>

---------------------------------------------------------------------------
(* Values *)

Null == [null |-> TRUE]

Undefined == "undefined"

EmptyObject == [k \in {} |-> Undefined]

\* Longest permission list a role is given in the tables that are explored.
MaxPermsPerRole == 2

Permissions == {"a", "b"}

\* Roles that may be own keys of a role table.
TableRoles == {"USER", "ADMIN"}

\* Keys every object literal inherits from Object.prototype; reading one
\* from a table yields a function object, not an array.
ObjectPrototypeKeys == {"toString"}

Roles == TableRoles \cup ObjectPrototypeKeys

Statuses == {"ACTIVE", "BANNED"}

PermissionLists == UNION {[1..n -> Permissions] : n \in 0..MaxPermsPerRole}

\* Record<Role, Permission[]>: USER always listed first; tables without an
\* ADMIN entry make ADMIN a role that has no entry.
RolePermissionTables ==
    {EmptyObject}
      \cup {[r \in {"USER"} |-> l] : l \in PermissionLists}
      \cup {[r \in TableRoles |-> IF r = "USER" THEN <<"a">> ELSE <<"a", "b">>]}

\* isUserActive callbacks an application may configure.
NotBanned(user) == user.status # "BANNED"

IsUserActivePredicates == {"notBanned"}

ApplyIsUserActive(name, user) ==
    CASE name = "notBanned" -> NotBanned(user)

\* messages?: { unauthorized?, banned?, insufficientPermissions? }: none
\* supplied, all three supplied, all three supplied as the empty string.
MessagesObjects ==
    {EmptyObject,
     [unauthorized |-> "Please sign in",
      banned |-> "Account suspended",
      insufficientPermissions |-> "Not allowed"],
     [unauthorized |-> "", banned |-> "", insufficientPermissions |-> ""]}

\* Session accessors: the identity provider's auth(), and () => null.
AuthFns == {[name |-> "auth"], [name |-> "authNull"]}

Users == [id : {"u1"}, role : Roles, status : Statuses \cup {Undefined}]

SessionWithoutUser == [expires |-> "never"]

Sessions == {Null, SessionWithoutUser} \cup {[user |-> u] : u \in Users}

AccessorResults(fn) == IF fn.name = "authNull" THEN {Null} ELSE Sessions

\* The argument of configurePermissions.
ConfigInputs ==
    [auth : AuthFns,
     rolePermissions : RolePermissionTables,
     isUserActive : IsUserActivePredicates \cup {Undefined},
     activeStatus : {"ACTIVE", Undefined},
     messages : MessagesObjects]

---------------------------------------------------------------------------
(* src/permissions.ts *)

\* rolePermissions[userRole]: an own key yields its array, an inherited key
\* yields the inherited function object, any other key yields undefined.
NotAnArray == <<"function">>

PropertyGet(rolePermissions, userRole) ==
    IF userRole \in DOMAIN rolePermissions THEN rolePermissions[userRole]
    ELSE IF userRole \in ObjectPrototypeKeys THEN NotAnArray
    ELSE <<>>

\* permissions.includes(permission)
Includes(permissions, permission) ==
    \E i \in 1..Len(permissions) : permissions[i] = permission

\* `permissions.includes` is not a function when the value read is no array.
userCanThrows(userRole, rolePermissions) ==
    PropertyGet(rolePermissions, userRole) = NotAnArray

\* Mutant: the permission is looked up in every role's list.
userCan_AnyRole(userRole, permission, rolePermissions) ==
    \E r \in DOMAIN rolePermissions :
        Includes(rolePermissions[r], permission)

\* (rolePermissions[userRole] || []).includes(permission), when it returns
userCan(userRole, permission, rolePermissions) ==
    Includes(PropertyGet(rolePermissions, userRole), permission)

\* permissions.some(callback): the callback runs on each element in turn,
\* so a callback that throws does so on the first element.
userCanAnyThrows(userRole, permissions, rolePermissions) ==
    permissions # <<>> /\ userCanThrows(userRole, rolePermissions)

RECURSIVE Some(_, _, _, _)
Some(userRole, permissions, rolePermissions, i) ==
    IF i > Len(permissions) THEN FALSE
    ELSE IF userCan(userRole, permissions[i], rolePermissions) THEN TRUE
    ELSE Some(userRole, permissions, rolePermissions, i + 1)

\* Mutant: only the first permission asked for is looked at.
userCanAny_FirstOnly(userRole, permissions, rolePermissions) ==
    /\ permissions # <<>>
    /\ userCan(userRole, permissions[1], rolePermissions)

\* permissions.some(p => userCan(userRole, p, rolePermissions))
userCanAny(userRole, permissions, rolePermissions) ==
    Some(userRole, permissions, rolePermissions, 1)

\* permissions.every(callback)
userCanAllThrows(userRole, permissions, rolePermissions) ==
    permissions # <<>> /\ userCanThrows(userRole, rolePermissions)

RECURSIVE Every(_, _, _, _)
Every(userRole, permissions, rolePermissions, i) ==
    IF i > Len(permissions) THEN TRUE
    ELSE IF ~userCan(userRole, permissions[i], rolePermissions) THEN FALSE
    ELSE Every(userRole, permissions, rolePermissions, i + 1)

\* permissions.every(p => userCan(userRole, p, rolePermissions))
userCanAll(userRole, permissions, rolePermissions) ==
    Every(userRole, permissions, rolePermissions, 1)

---------------------------------------------------------------------------
(* src/server/authUtils.ts *)

StatusUnauthorized == 401

StatusForbidden == 403

TypeError == "TypeError"

\* NextResponse.json({ message }, { status })
NextResponseJson(message, status) == [message |-> message, status |-> status]

\* object?.key || dflt, for a string-valued optional key
OrDefault(object, key, dflt) ==
    IF key \in DOMAIN object /\ object[key] # Undefined /\ object[key] # ""
    THEN object[key] ELSE dflt

\* !(!session?.user)
HasUser(session) == session # Null /\ "user" \in DOMAIN session

\* Mutant: the unauthenticated denial is built with status 403.
requireAuthInternal_Forbidden(session) ==
    IF ~HasUser(session)
    THEN [error |-> NextResponseJson("Unauthorized", StatusForbidden),
          session |-> Null]
    ELSE [session |-> session, error |-> Null]

\* Mutant: the denial carries the session that was rejected.
requireAuthInternal_KeepsSession(session) ==
    IF ~HasUser(session)
    THEN [error |-> NextResponseJson("Unauthorized", StatusUnauthorized),
          session |-> session]
    ELSE [session |-> session, error |-> Null]

\* requireAuthInternal, from the point where `await auth()` yields `session`
requireAuthInternal(session) ==
    IF ~HasUser(session)
    THEN [error |-> NextResponseJson("Unauthorized", StatusUnauthorized),
          session |-> Null]
    ELSE [session |-> session, error |-> Null]

\* Mutant: activeStatus is compared even when isUserActive is configured.
PassesActiveCheck_Both(config, user) ==
    /\ config.isUserActive # Undefined =>
         ApplyIsUserActive(config.isUserActive, user)
    /\ config.activeStatus # Undefined => user.status = config.activeStatus

\* The active-status rule of requireUserCanInternal: FALSE where the code
\* returns the banned denial.
PassesActiveCheck(config, user) ==
    IF config.isUserActive # Undefined
    THEN ApplyIsUserActive(config.isUserActive, user)
    ELSE IF config.activeStatus # Undefined
    THEN user.status = config.activeStatus
    ELSE TRUE

UnauthorizedDenial(config) ==
    NextResponseJson(OrDefault(config.messages, "unauthorized", "Unauthorized"),
                     StatusUnauthorized)

BannedDenial(config) ==
    NextResponseJson(OrDefault(config.messages, "banned",
                               "Your account has been banned"),
                     StatusForbidden)

InsufficientDenial(config) ==
    NextResponseJson(OrDefault(config.messages, "insufficientPermissions",
                               "Insufficient permissions"),
                     StatusForbidden)

Denied(error) == [error |-> error, session |-> Null]

Thrown(result) == "throws" \in DOMAIN result

\* Mutant: the permission is checked before the active-status rule.
requireUserCanInternal_PermissionFirst(permission, session, config) ==
    LET r == requireAuthInternal(session)
    IN  IF r.error # Null THEN Denied(r.error)
        ELSE IF userCanThrows(r.session.user.role, config.rolePermissions)
        THEN [throws |-> TypeError]
        ELSE IF ~userCan(r.session.user.role, permission,
                         config.rolePermissions)
        THEN Denied(InsufficientDenial(config))
        ELSE IF ~PassesActiveCheck(config, r.session.user)
        THEN Denied(BannedDenial(config))
        ELSE [session |-> r.session, error |-> Null]

\* requireUserCanInternal, from the point where `await auth()` yields
\* `session`: an AuthResult, or [throws |-> e] when userCan throws.
requireUserCanInternal(permission, session, config) ==
    LET r == requireAuthInternal(session)
    IN  IF r.error # Null THEN Denied(r.error)
        ELSE IF r.session = Null THEN Denied(UnauthorizedDenial(config))
        ELSE IF ~PassesActiveCheck(config, r.session.user)
        THEN Denied(BannedDenial(config))
        ELSE IF userCanThrows(r.session.user.role, config.rolePermissions)
        THEN [throws |-> TypeError]
        ELSE IF ~userCan(r.session.user.role, permission,
                         config.rolePermissions)
        THEN Denied(InsufficientDenial(config))
        ELSE [session |-> r.session, error |-> Null]

---------------------------------------------------------------------------
(* src/server/config.ts *)

NotConfigured == "Permissions not configured"

\* Mutant: an optional key that the new configuration omits keeps the
\* value of the previous configuration.
configurePermissions_Merges(config) ==
    LET keep(key) == IF config[key] = Undefined /\ permissionConfig # Null
                     THEN permissionConfig[key] ELSE config[key]
    IN  /\ authFn' = config.auth
        /\ permissionConfig' = [rolePermissions |-> config.rolePermissions,
                                isUserActive |-> keep("isUserActive"),
                                activeStatus |-> keep("activeStatus"),
                                messages |-> config.messages]
        /\ lastConfigure' = config
        /\ UNCHANGED <<call, elsewhere>>

configurePermissions(config) ==
    /\ authFn' = config.auth
    /\ permissionConfig' = [rolePermissions |-> config.rolePermissions,
                            isUserActive |-> config.isUserActive,
                            activeStatus |-> config.activeStatus,
                            messages |-> config.messages]
    /\ lastConfigure' = config
    /\ UNCHANGED <<call, elsewhere>>

WasReset == [reset |-> TRUE]

\* Mutant: only the session accessor is cleared.
resetConfig_KeepsConfig ==
    /\ authFn' = Null
    /\ lastConfigure' = IF lastConfigure = Null THEN Null ELSE WasReset
    /\ UNCHANGED <<permissionConfig, call, elsewhere>>

\* Mutant: only the permission configuration is cleared.
resetConfig_KeepsAuth ==
    /\ permissionConfig' = Null
    /\ lastConfigure' = IF lastConfigure = Null THEN Null ELSE WasReset
    /\ UNCHANGED <<authFn, call, elsewhere>>

resetConfig ==
    /\ authFn' = Null
    /\ permissionConfig' = Null
    /\ lastConfigure' = IF lastConfigure = Null THEN Null ELSE WasReset
    /\ UNCHANGED <<call, elsewhere>>

\* Mutant: getAuth() returns whatever is held.
getAuthThrows_Never == FALSE

\* getAuth() and getPermissionConfig() throw exactly in these states.
getAuthThrows == authFn = Null

getPermissionConfigThrows == permissionConfig = Null

---------------------------------------------------------------------------
(* Invocations *)

\* request objects: only whether the body stream has been read
Requests == [bodyUsed : BOOLEAN]

RouteParams == [id |-> "42"]

\* A `session` key the caller of the middleware put into the context.
StaleSession == [user |-> [id |-> "u0", role |-> "ADMIN", status |-> "ACTIVE"]]

Contexts == {[params |-> RouteParams],
             [params |-> RouteParams, session |-> StaleSession]}

\* options?: { errorMessage?, errorStatus? } of withCustomPermission
OptionsObjects ==
    {EmptyObject,
     [errorMessage |-> ""],
     [errorMessage |-> "Not your building"],
     [k \in {"errorStatus"} |-> 0],
     [k \in {"errorStatus"} |-> 404],
     [errorMessage |-> "Not your building", errorStatus |-> 404]}

\* What the wrapped handler may return.
HandlerResponses == {NextResponseJson("success", 200),
                     NextResponseJson("Not found", 404)}

IdleCall ==
    [kind |-> "none", pc |-> "idle", permission |-> Undefined,
     options |-> EmptyObject, request |-> Null, context |-> Null,
     auth |-> Null, config |-> Null, session |-> Null, authResult |-> Null,
     clonedRequest |-> Null, checkerArgs |-> Null, canAccess |-> Undefined,
     handlerArgs |-> Null, handlerResult |-> Null, outcome |-> Null,
     accessorCalls |-> 0, checkerCalls |-> 0, handlerCalls |-> 0,
     checker |-> Null, atCall |-> Null]

\* A call begins; atCall is history: the store as the call found it.
NewCall(kind) ==
    [IdleCall EXCEPT !.kind = kind,
                     !.atCall = [authFn |-> authFn,
                                 permissionConfig |-> permissionConfig,
                                 lastConfigure |-> lastConfigure]]

Returns(value) == [returns |-> value]

Throws(error) == [throws |-> error]

Idle == call.pc = "idle"

\* Mutant: { session, ...context }, a session key of the context wins.
MergeSession_ContextWins(context, session) ==
    [k \in DOMAIN context \cup {"session"} |->
        IF k \in DOMAIN context THEN context[k] ELSE session]

\* { ...context, session }
MergeSession(context, session) ==
    [k \in DOMAIN context \cup {"session"} |->
        IF k = "session" THEN session ELSE context[k]]

\* Mutant: the handler is awaited once and then called again for the result.
InvokeHandler_Twice(c, session) ==
    [c EXCEPT !.pc = "awaitHandler",
              !.handlerCalls = @ + 2,
              !.handlerArgs = [request |-> "request",
                               bodyUsed |-> c.request.bodyUsed,
                               context |-> MergeSession(c.context, session)]]

\* handler(request, newContext): the handler starts with these arguments
InvokeHandler(c, session) ==
    [c EXCEPT !.pc = "awaitHandler",
              !.handlerCalls = @ + 1,
              !.handlerArgs = [request |-> "request",
                               bodyUsed |-> c.request.bodyUsed,
                               context |-> MergeSession(c.context, session)]]

Finish(c, outcome) == [c EXCEPT !.pc = "done", !.outcome = outcome]

---------------------------------------------------------------------------
(* src/server/authUtils.ts: requireAuth, requireUserCan *)

\* requireAuth(), up to `await auth()`
requireAuth ==
    /\ Idle
    /\ call' = IF getAuthThrows
               THEN Finish(NewCall("requireAuth"), Throws(NotConfigured))
               ELSE [NewCall("requireAuth") EXCEPT !.pc = "awaitAuth",
                                                   !.auth = authFn,
                                                   !.accessorCalls = 1]
    /\ UNCHANGED <<store, elsewhere>>

\* requireAuth(), from the point where `await auth()` yields
requireAuthResume ==
    /\ call.kind = "requireAuth" /\ call.pc = "awaitAuth"
    /\ \E session \in AccessorResults(call.auth) :
         LET r == requireAuthInternal(session)
         IN  call' = Finish([call EXCEPT !.session = session,
                                         !.authResult = r], Returns(r))
    /\ UNCHANGED <<store, elsewhere>>

\* requireUserCan(permission), up to `await auth()`
requireUserCan(permission) ==
    /\ Idle
    /\ LET c == [NewCall("requireUserCan") EXCEPT !.permission = permission]
       IN  call' = IF getAuthThrows \/ getPermissionConfigThrows
                   THEN Finish(c, Throws(NotConfigured))
                   ELSE [c EXCEPT !.pc = "awaitAuth", !.auth = authFn,
                                  !.accessorCalls = 1,
                                  !.config = permissionConfig]
    /\ UNCHANGED <<store, elsewhere>>

\* Mutant: the permission configuration is fetched after `await auth()`.
requireUserCanResume_LateConfig ==
    /\ call.kind = "requireUserCan" /\ call.pc = "awaitAuth"
    /\ \E session \in AccessorResults(call.auth) :
         LET c == [call EXCEPT !.session = session]
             r == requireUserCanInternal(call.permission, session,
                                         permissionConfig)
         IN  call' = IF getPermissionConfigThrows
                     THEN Finish(c, Throws(NotConfigured))
                     ELSE IF Thrown(r) THEN Finish(c, Throws(r.throws))
                     ELSE Finish([c EXCEPT !.authResult = r], Returns(r))
    /\ UNCHANGED <<store, elsewhere>>

\* requireUserCan(permission), from the point where `await auth()` yields
requireUserCanResume ==
    /\ call.kind = "requireUserCan" /\ call.pc = "awaitAuth"
    /\ \E session \in AccessorResults(call.auth) :
         LET r == requireUserCanInternal(call.permission, session, call.config)
             c == [call EXCEPT !.session = session]
         IN  call' = IF Thrown(r) THEN Finish(c, Throws(r.throws))
                     ELSE Finish([c EXCEPT !.authResult = r], Returns(r))
    /\ UNCHANGED <<store, elsewhere>>

---------------------------------------------------------------------------
(* src/server/middleware.ts *)

\* withAuth(handler)(request, context), up to `await auth()`
withAuthEnter(request, context) ==
    LET c == [NewCall("withAuth") EXCEPT !.request = request,
                                         !.context = context]
    IN  IF getAuthThrows THEN Finish(c, Throws(NotConfigured))
        ELSE [c EXCEPT !.pc = "awaitAuth", !.auth = authFn,
                       !.accessorCalls = 1]

withAuth(request, context) ==
    /\ Idle
    /\ call' = withAuthEnter(request, context)
    /\ UNCHANGED <<store, elsewhere>>

\* Mutant: the `return error` is missing, the handler runs after a denial.
withAuthResume_NoReturn ==
    /\ call.kind = "withAuth" /\ call.pc = "awaitAuth"
    /\ \E session \in AccessorResults(call.auth) :
         LET r == requireAuthInternal(session)
             c == [call EXCEPT !.session = session, !.authResult = r]
         IN  call' = InvokeHandler(c, r.session)
    /\ UNCHANGED <<store, elsewhere>>

\* Mutant: withAuth applies the active-status rule like requireUserCan.
withAuthResume_ChecksActive ==
    /\ call.kind = "withAuth" /\ call.pc = "awaitAuth"
    /\ \E session \in AccessorResults(call.auth) :
         LET r == IF HasUser(session)
                     /\ ~PassesActiveCheck(permissionConfig, session.user)
                  THEN [session |-> Null,
                        error |-> NextResponseJson(
                                     "Your account has been banned",
                                     StatusForbidden)]
                  ELSE requireAuthInternal(session)
             c == [call EXCEPT !.session = session, !.authResult = r]
         IN  call' = IF r.error # Null THEN Finish(c, Returns(r.error))
                     ELSE InvokeHandler(c, r.session)
    /\ UNCHANGED <<store, elsewhere>>

\* withAuth: from the accessor's result to the call of the handler
withAuthAfterAuth(suspended, session) ==
    LET r == requireAuthInternal(session)
        c == [suspended EXCEPT !.session = session, !.authResult = r]
    IN  IF r.error # Null THEN Finish(c, Returns(r.error))
        ELSE InvokeHandler(c, r.session)

withAuthResume ==
    /\ call.kind = "withAuth" /\ call.pc = "awaitAuth"
    /\ \E session \in AccessorResults(call.auth) :
         call' = withAuthAfterAuth(call, session)
    /\ UNCHANGED <<store, elsewhere>>

\* withPermission(permission)(handler)(request, context), up to `await auth()`
withPermissionEnter(permission, request, context) ==
    LET c == [NewCall("withPermission") EXCEPT !.permission = permission,
                                 !.request = request, !.context = context]
    IN  IF getAuthThrows \/ getPermissionConfigThrows
        THEN Finish(c, Throws(NotConfigured))
        ELSE [c EXCEPT !.pc = "awaitAuth", !.auth = authFn,
                       !.accessorCalls = 1,
                       !.config = permissionConfig]

withPermission(permission, request, context) ==
    /\ Idle
    /\ call' = withPermissionEnter(permission, request, context)
    /\ UNCHANGED <<store, elsewhere>>

\* Mutant: the session put into the context comes from a second call of
\* the accessor.
withPermissionResume_SecondLookup ==
    /\ call.kind = "withPermission" /\ call.pc = "awaitAuth"
    /\ \E session \in AccessorResults(call.auth),
          again \in AccessorResults(call.auth) :
         LET r == requireUserCanInternal(call.permission, session, call.config)
             c == [call EXCEPT !.session = session]
         IN  call' = IF Thrown(r) THEN Finish(c, Throws(r.throws))
                     ELSE IF r.error # Null
                     THEN Finish([c EXCEPT !.authResult = r], Returns(r.error))
                     ELSE InvokeHandler([c EXCEPT !.authResult = r,
                                                  !.accessorCalls = @ + 1],
                                        again)
    /\ UNCHANGED <<store, elsewhere>>

\* withPermission: from the accessor's result to the call of the handler
withPermissionAfterAuth(suspended, session) ==
    LET r == requireUserCanInternal(suspended.permission, session,
                                    suspended.config)
        c == [suspended EXCEPT !.session = session]
    IN  IF Thrown(r) THEN Finish(c, Throws(r.throws))
        ELSE IF r.error # Null
        THEN Finish([c EXCEPT !.authResult = r], Returns(r.error))
        ELSE InvokeHandler([c EXCEPT !.authResult = r], r.session)

withPermissionResume ==
    /\ call.kind = "withPermission" /\ call.pc = "awaitAuth"
    /\ \E session \in AccessorResults(call.auth) :
         call' = withPermissionAfterAuth(call, session)
    /\ UNCHANGED <<store, elsewhere>>

\* Mutant: options.errorStatus is not consulted.
StatusOrDefault_Ignored(options, dflt) == dflt

\* options?.errorStatus || dflt
StatusOrDefault(options, dflt) ==
    IF "errorStatus" \in DOMAIN options /\ options.errorStatus # 0
    THEN options.errorStatus ELSE dflt

\* withCustomPermission(checker, options)(handler)(request, context), up
\* to `await auth()`
withCustomPermissionEnter(options, request, context) ==
    LET c == [NewCall("withCustomPermission") EXCEPT !.options = options,
                                 !.request = request, !.context = context]
    IN  IF getAuthThrows THEN Finish(c, Throws(NotConfigured))
        ELSE [c EXCEPT !.pc = "awaitAuth", !.auth = authFn,
                       !.accessorCalls = 1]

withCustomPermission(options, request, context) ==
    /\ Idle
    /\ call' = withCustomPermissionEnter(options, request, context)
    /\ UNCHANGED <<store, elsewhere>>

\* Mutant: the checker is handed the request itself, not a clone.
CheckerRequest_Original == "request"

\* The request object handed to the checker.
CheckerRequest == "clonedRequest"

\* Mutant: the checker is handed the context with the session merged in.
withCustomPermissionResume_MergedContext ==
    /\ call.kind = "withCustomPermission" /\ call.pc = "awaitAuth"
    /\ \E session \in AccessorResults(call.auth) :
         LET r == requireAuthInternal(session)
             c == [call EXCEPT !.session = session, !.authResult = r]
         IN  call' =
               IF r.error # Null THEN Finish(c, Returns(r.error))
               ELSE IF r.session = Null
               THEN Finish(c, Returns(NextResponseJson(
                        OrDefault(c.options, "errorMessage", "Unauthorized"),
                        StatusOrDefault(c.options, StatusUnauthorized))))
               ELSE IF c.request.bodyUsed THEN Finish(c, Throws(TypeError))
               ELSE [c EXCEPT !.pc = "awaitChecker",
                              !.checkerCalls = @ + 1,
                              !.clonedRequest = [bodyUsed |-> FALSE],
                              !.checkerArgs =
                                 [session |-> r.session,
                                  context |-> MergeSession(c.context,
                                                           r.session),
                                  request |-> CheckerRequest]]
    /\ UNCHANGED <<store, elsewhere>>

\* withCustomPermission: from the accessor's result to the call of the
\* checker.  request.clone() throws a TypeError on a request whose body has
\* been read.
withCustomPermissionAfterAuth(suspended, session) ==
    LET r == requireAuthInternal(session)
        c == [suspended EXCEPT !.session = session, !.authResult = r]
    IN  IF r.error # Null THEN Finish(c, Returns(r.error))
        ELSE IF r.session = Null
        THEN Finish(c, Returns(NextResponseJson(
                 OrDefault(c.options, "errorMessage", "Unauthorized"),
                 StatusOrDefault(c.options, StatusUnauthorized))))
        ELSE IF c.request.bodyUsed THEN Finish(c, Throws(TypeError))
        ELSE [c EXCEPT !.pc = "awaitChecker",
                       !.checkerCalls = @ + 1,
                       !.clonedRequest = [bodyUsed |-> FALSE],
                       !.checkerArgs = [session |-> r.session,
                                        context |-> c.context,
                                        request |-> CheckerRequest]]

withCustomPermissionResume ==
    /\ call.kind = "withCustomPermission" /\ call.pc = "awaitAuth"
    /\ \E session \in AccessorResults(call.auth) :
         call' = withCustomPermissionAfterAuth(call, session)
    /\ UNCHANGED <<store, elsewhere>>

CheckerError == "CheckerError"

\* Mutant: an exception of the checker is caught and counts as `false`.
AfterChecker_CatchesError(c, result) ==
    IF result \in {"throws", "false"}
    THEN Finish([c EXCEPT !.canAccess = "false"],
                Returns(NextResponseJson(
                    OrDefault(c.options, "errorMessage",
                              "Insufficient permissions"),
                    StatusOrDefault(c.options, StatusForbidden))))
    ELSE InvokeHandler([c EXCEPT !.canAccess = "true"], c.authResult.session)

\* Mutant: a checker that refuses is asked again.
AfterChecker_AsksAgain(c, result) ==
    IF result = "throws" THEN Finish(c, Throws(CheckerError))
    ELSE IF result = "false" THEN c
    ELSE InvokeHandler([c EXCEPT !.canAccess = "true"], c.authResult.session)

\* withCustomPermission from the point where `await checker(...)` yields
\* `result` or throws: the exception propagates, false is the denial, true
\* goes on to the call of the handler.
AfterChecker(c, result) ==
    IF result = "throws" THEN Finish(c, Throws(CheckerError))
    ELSE IF result = "false"
    THEN Finish([c EXCEPT !.canAccess = "false"],
                Returns(NextResponseJson(
                    OrDefault(c.options, "errorMessage",
                              "Insufficient permissions"),
                    StatusOrDefault(c.options, StatusForbidden))))
    ELSE InvokeHandler([c EXCEPT !.canAccess = "true"], c.authResult.session)

\* The checker runs: it may read the body of the request it was given, and
\* returns true or false or throws.  Then withCustomPermission continues.
checkerCompletes ==
    /\ call.kind = "withCustomPermission" /\ call.pc = "awaitChecker"
    /\ \E readsBody \in BOOLEAN, result \in {"true", "false", "throws"} :
         LET did == [call EXCEPT !.checker = [readsBody |-> readsBody,
                                              result |-> result]]
             c == IF ~readsBody THEN did
                  ELSE IF call.checkerArgs.request = "request"
                  THEN [did EXCEPT !.request.bodyUsed = TRUE]
                  ELSE [did EXCEPT !.clonedRequest.bodyUsed = TRUE]
         IN  call' = AfterChecker(c, result)
    /\ UNCHANGED <<store, elsewhere>>

\* The wrapped handler returns; its response is the middleware's response.
AfterHandler(suspended, response) ==
    Finish([suspended EXCEPT !.handlerResult = response], Returns(response))

handlerCompletes ==
    /\ call.pc = "awaitHandler"
    /\ \E response \in HandlerResponses :
         call' = AfterHandler(call, response)
    /\ UNCHANGED <<store, elsewhere>>

---------------------------------------------------------------------------
(* src/server/helpers.ts (src/unnamed/part_004) *)

\* Mutant: inside an invocation, the table is the one held when the
\* invocation began.
checkPermissionOutcome_AtEntry(session, permission) ==
    LET held == IF call.atCall = Null THEN permissionConfig
                ELSE call.atCall.permissionConfig
    IN  IF held = Null THEN Throws(NotConfigured)
        ELSE IF userCanThrows(session.user.role, held.rolePermissions)
        THEN Throws(TypeError)
        ELSE Returns(userCan(session.user.role, permission,
                             held.rolePermissions))

\* What checkPermission(session, permission) does with the store as it is.
checkPermissionOutcome(session, permission) ==
    IF getPermissionConfigThrows THEN Throws(NotConfigured)
    ELSE IF userCanThrows(session.user.role, permissionConfig.rolePermissions)
    THEN Throws(TypeError)
    ELSE Returns(userCan(session.user.role, permission,
                         permissionConfig.rolePermissions))

\* A checker that returns checkPermission(session, permission): the call is
\* made when the checker runs; what checkPermission throws, the checker
\* throws.  tableThen is history: the role table of the latest
\* configurePermissions at that moment.
checkerChecksPermission(permission) ==
    /\ call.kind = "withCustomPermission" /\ call.pc = "awaitChecker"
    /\ LET outcome == checkPermissionOutcome(call.checkerArgs.session,
                                             permission)
           threw == "throws" \in DOMAIN outcome
           c == [call EXCEPT !.checker =
                    [readsBody |-> FALSE,
                     result |-> IF threw THEN "checkPermissionThrew"
                                ELSE IF outcome.returns THEN "true"
                                ELSE "false",
                     checkPermission |->
                        [permission |-> permission,
                         tableThen |-> IF lastConfigure \in {Null, WasReset}
                                       THEN Null
                                       ELSE lastConfigure.rolePermissions,
                         outcome |-> outcome]]]
       IN  call' = IF threw THEN Finish(c, outcome)
                   ELSE AfterChecker(c, c.checker.result)
    /\ UNCHANGED <<store, elsewhere>>

\* checkPermission(session, permission): synchronous, it reads the store
\* when it is called.
checkPermission(session, permission) ==
    /\ Idle
    /\ LET c == [NewCall("checkPermission") EXCEPT !.session = session,
                                                   !.permission = permission]
       IN  call' =
             IF getPermissionConfigThrows THEN Finish(c, Throws(NotConfigured))
             ELSE Finish([c EXCEPT !.config = permissionConfig],
                         checkPermissionOutcome(session, permission))
    /\ UNCHANGED <<store, elsewhere>>

\* The caller has taken the outcome of the invocation.
settle ==
    /\ call.pc = "done"
    /\ call' = IdleCall
    /\ UNCHANGED <<store, elsewhere>>

---------------------------------------------------------------------------
(* The pure functions of src/permissions.ts and src/server/helpers.ts,     *)
(* each applied once to arguments drawn from bounded sets.                 *)

\* the null value of a `string | null` field
NullId == "<null>"

UserIds == {"u1", "u2"}

OwnerFields == {"submittedByUserId", "userId", "ownerId"}

\* Resources exposing any subset of the owner fields, each null, empty or
\* a user id.
Resources ==
    UNION {[fields -> {NullId, ""} \cup UserIds] : fields \in SUBSET OwnerFields}

\* `value` is truthy
Truthy(value) == value \notin {NullId, ""}

\* Mutant: every owner field is compared with the session's user id.
checkOwnership_AnyField(resource, session) ==
    \E field \in DOMAIN resource : resource[field] = session.user.id

\* checkOwnership(resource, session)
checkOwnership(resource, session) ==
    IF "submittedByUserId" \in DOMAIN resource
       /\ Truthy(resource.submittedByUserId)
    THEN resource.submittedByUserId = session.user.id
    ELSE IF "userId" \in DOMAIN resource /\ Truthy(resource.userId)
    THEN resource.userId = session.user.id
    ELSE IF "ownerId" \in DOMAIN resource /\ Truthy(resource.ownerId)
    THEN resource.ownerId = session.user.id
    ELSE FALSE

\* The calls that are about to be made.
Evaluations ==
    [fn : {"userCan"}, userRole : Roles, permission : Permissions,
     rolePermissions : RolePermissionTables, result : {Null}]
    \cup
    [fn : {"userCanAny", "userCanAll"}, userRole : Roles,
     permissions : PermissionLists,
     rolePermissions : RolePermissionTables, result : {Null}]
    \cup
    [fn : {"checkOwnership"}, resource : Resources,
     session : {[user |-> [id |-> id]] : id \in UserIds}, result : {Null}]

InitPure ==
    /\ authFn = Null
    /\ permissionConfig = Null
    /\ lastConfigure = Null
    /\ call = IdleCall
    /\ evaluation \in Evaluations
    /\ component = Null
    /\ requests = Null

Pending(fn) == evaluation.fn = fn /\ evaluation.result = Null

evalUserCan ==
    /\ Pending("userCan")
    /\ evaluation' =
         [evaluation EXCEPT !.result =
            IF userCanThrows(evaluation.userRole, evaluation.rolePermissions)
            THEN Throws(TypeError)
            ELSE Returns(userCan(evaluation.userRole, evaluation.permission,
                                 evaluation.rolePermissions))]
    /\ UNCHANGED <<store, call, component, requests>>

evalUserCanAny ==
    /\ Pending("userCanAny")
    /\ evaluation' =
         [evaluation EXCEPT !.result =
            IF userCanAnyThrows(evaluation.userRole, evaluation.permissions,
                                evaluation.rolePermissions)
            THEN Throws(TypeError)
            ELSE Returns(userCanAny(evaluation.userRole,
                                    evaluation.permissions,
                                    evaluation.rolePermissions))]
    /\ UNCHANGED <<store, call, component, requests>>

evalUserCanAll ==
    /\ Pending("userCanAll")
    /\ evaluation' =
         [evaluation EXCEPT !.result =
            IF userCanAllThrows(evaluation.userRole, evaluation.permissions,
                                evaluation.rolePermissions)
            THEN Throws(TypeError)
            ELSE Returns(userCanAll(evaluation.userRole,
                                    evaluation.permissions,
                                    evaluation.rolePermissions))]
    /\ UNCHANGED <<store, call, component, requests>>

evalCheckOwnership ==
    /\ Pending("checkOwnership")
    /\ evaluation' =
         [evaluation EXCEPT !.result =
            Returns(checkOwnership(evaluation.resource, evaluation.session))]
    /\ UNCHANGED <<store, call, component, requests>>

NextPure ==
    \/ evalUserCan
    \/ evalUserCanAny
    \/ evalUserCanAll
    \/ evalCheckOwnership

SpecPure == InitPure /\ [][NextPure]_vars

---------------------------------------------------------------------------
(* The library in use: configuration happens between invocations. *)

Init ==
    /\ authFn = Null
    /\ permissionConfig = Null
    /\ lastConfigure = Null
    /\ call = IdleCall
    /\ evaluation = Null
    /\ component = Null
    /\ requests = Null

Next ==
    \/ \E config \in ConfigInputs : Idle /\ configurePermissions(config)
    \/ Idle /\ resetConfig
    \/ requireAuth
    \/ requireAuthResume
    \/ \E permission \in Permissions : requireUserCan(permission)
    \/ requireUserCanResume
    \/ \E request \in Requests, context \in Contexts :
         withAuth(request, context)
    \/ withAuthResume
    \/ \E permission \in Permissions, request \in Requests,
          context \in Contexts :
         withPermission(permission, request, context)
    \/ withPermissionResume
    \/ \E options \in OptionsObjects, request \in Requests,
          context \in Contexts :
         withCustomPermission(options, request, context)
    \/ withCustomPermissionResume
    \/ checkerCompletes
    \/ handlerCompletes
    \/ \E user \in Users, permission \in Permissions :
         checkPermission([user |-> user], permission)
    \/ settle

Spec == Init /\ [][Next]_vars

\* The same, every awaited party answering in the end: the session
\* accessor, the checker and the wrapped handler.
SpecLive ==
    /\ Init /\ [][Next]_vars
    /\ WF_vars(withAuthResume)
    /\ WF_vars(withPermissionResume)
    /\ WF_vars(withCustomPermissionResume)
    /\ WF_vars(checkerCompletes)
    /\ WF_vars(handlerCompletes)

---------------------------------------------------------------------------
(* The library with configurePermissions and resetConfig running while an  *)
(* invocation is suspended at `await auth()`.                              *)

ConcurrentConfigInputs ==
    [auth : AuthFns,
     rolePermissions : {[r \in {"USER"} |-> <<"a">>],
                        [r \in TableRoles |->
                            IF r = "USER" THEN <<"a">> ELSE <<"a", "b">>]},
     isUserActive : IsUserActivePredicates \cup {Undefined},
     activeStatus : {"ACTIVE", Undefined},
     messages : {EmptyObject,
                 [unauthorized |-> "Please sign in",
                  banned |-> "Account suspended",
                  insufficientPermissions |-> "Not allowed"]}]

NextConcurrent ==
    \/ \E config \in ConcurrentConfigInputs : configurePermissions(config)
    \/ resetConfig
    \/ \E permission \in Permissions : requireUserCan(permission)
    \/ requireUserCanResume
    \/ \E permission \in Permissions :
         withPermission(permission, [bodyUsed |-> FALSE],
                        [params |-> RouteParams])
    \/ withPermissionResume
    \/ withCustomPermission(EmptyObject, [bodyUsed |-> FALSE],
                            [params |-> RouteParams])
    \/ withCustomPermissionResume
    \/ \E permission \in Permissions : checkerChecksPermission(permission)
    \/ \E user \in Users, permission \in Permissions :
         checkPermission([user |-> user], permission)
    \/ handlerCompletes
    \/ settle

SpecConcurrent == Init /\ [][NextConcurrent]_vars

---------------------------------------------------------------------------
(* src/client/context.tsx and src/client/hooks.ts: one component that      *)
(* calls a requirement hook below a PermissionsProvider.  A render runs    *)
(* the hook body and then, once committed, the effects whose dependencies  *)
(* changed.                                                                *)

MaxRenders == 3

ClientTables == {EmptyObject, [r \in {"USER"} |-> <<"a">>]}

\* The props given to PermissionsProvider, the optional ones supplied or not.
ProviderProps ==
    [rolePermissions : ClientTables]
    \cup [rolePermissions : ClientTables, signinPath : {"/login"}]
    \cup [rolePermissions : ClientTables, defaultRedirectTo : {"/home"}]
    \cup [rolePermissions : ClientTables, signinPath : {"/login"},
          defaultRedirectTo : {"/home"}]

\* The context value PermissionsProvider hands down.
PermissionsProvider(props) ==
    [rolePermissions |-> props.rolePermissions,
     signinPath |-> IF "signinPath" \in DOMAIN props
                    THEN props.signinPath ELSE "/signin",
     defaultRedirectTo |-> IF "defaultRedirectTo" \in DOMAIN props
                           THEN props.defaultRedirectTo ELSE "/"]

\* window.location.pathname + window.location.search
CurrentPaths == {"/admin", "/admin?tab=1"}

encodeURIComponent(str) ==
    CASE str = "/admin" -> "%2Fadmin"
      [] str = "/admin?tab=1" -> "%2Fadmin%3Ftab%3D1"

\* The optional redirectTo argument of the hooks.
RedirectTos == {Undefined, "", "/denied"}

\* What useSession() returns.
ClientUsers == [id : {"u1"}, role : Roles \cup {Undefined}]

SessionStates ==
    {[status |-> "loading", data |-> Null],
     [status |-> "unauthenticated", data |-> Null]}
    \cup {[status |-> "authenticated", data |-> [user |-> u]] : u \in ClientUsers}

Hooks == {"useRequireAuthenticatedUser", "useRequireUserCan"}

\* session?.user?.role is truthy
HasRole(session) ==
    /\ session # Null
    /\ "user" \in DOMAIN session
    /\ session.user.role \notin {Undefined, ""}

\* Mutant: the effect does not return early while the status is loading.
AuthenticatedUserEffect_NoLoadingGuard(c, state) ==
    IF state.status # "authenticated"
    THEN <<[method |-> "replace",
            url |-> IF c.redirectTo \notin {Undefined, ""} THEN c.redirectTo
                    ELSE c.context.signinPath \o "?redirectTo="
                           \o encodeURIComponent(c.currentPath)]>>
    ELSE <<>>

\* The effect of useRequireAuthenticatedUser(redirectTo).
AuthenticatedUserEffect(c, state) ==
    IF state.status = "loading" THEN <<>>
    ELSE IF state.status = "unauthenticated"
    THEN <<[method |-> "replace",
            url |-> IF c.redirectTo \notin {Undefined, ""} THEN c.redirectTo
                    ELSE c.context.signinPath \o "?redirectTo="
                           \o encodeURIComponent(c.currentPath)]>>
    ELSE <<>>

\* The argument of the useRequireAuthenticatedUser call in the hook.
InnerRedirectTo(c) == c.redirectTo

\* The effect of useRequireUserCan(permission, redirectTo).
UserCanEffect(c, state, hasPermission) ==
    IF state.status # "loading" /\ state.data # Null /\ ~hasPermission
    THEN <<[method |-> "push",
            url |-> IF c.redirectTo \notin {Undefined, ""} THEN c.redirectTo
                    ELSE c.context.defaultRedirectTo]>>
    ELSE <<>>

\* One render of the component with useSession() returning `state`, and the
\* effects that follow its commit.  A render in which userCan throws is not
\* committed.
Render(c, state) ==
    LET session == state.data
        both == c.hook = "useRequireUserCan"
        throws == /\ both /\ HasRole(session)
                  /\ userCanThrows(session.user.role, c.context.rolePermissions)
        hasPermission ==
            IF both /\ HasRole(session)
            THEN userCan(session.user.role, c.permission,
                         c.context.rolePermissions)
            ELSE FALSE
        inner == IF both THEN [c EXCEPT !.redirectTo = InnerRedirectTo(c)]
                 ELSE c
        deps1 == <<state.status, inner.redirectTo, c.context.signinPath>>
        deps2 == IF both
                 THEN <<session, state.status = "loading", hasPermission,
                        c.redirectTo, c.context.defaultRedirectTo>>
                 ELSE <<>>
        run1 == c.renders = 0 \/ deps1 # c.deps1
        run2 == both /\ (c.renders = 0 \/ deps2 # c.deps2)
        issued ==
            (IF run1 THEN AuthenticatedUserEffect(inner, state) ELSE <<>>)
            \o (IF run2 THEN UserCanEffect(c, state, hasPermission) ELSE <<>>)
    IN  IF throws
        THEN [c EXCEPT !.useSession = state, !.renders = @ + 1,
                       !.crashed = TRUE, !.issued = <<>>]
        ELSE [c EXCEPT !.useSession = state, !.renders = @ + 1,
                       !.deps1 = deps1, !.deps2 = deps2,
                       !.hasPermission = hasPermission,
                       !.issued = issued,
                       !.navigations = @ \o issued]

\* The component is mounted and rendered for the first time.
mount(hook, permission, redirectTo, props, currentPath, state) ==
    /\ component = Null
    /\ component' =
         Render([hook |-> hook,
                 permission |-> IF hook = "useRequireUserCan"
                                THEN permission ELSE Undefined,
                 redirectTo |-> redirectTo,
                 context |-> PermissionsProvider(props),
                 currentPath |-> currentPath,
                 useSession |-> state, renders |-> 0,
                 deps1 |-> <<>>, deps2 |-> <<>>, hasPermission |-> FALSE,
                 issued |-> <<>>, navigations |-> <<>>, crashed |-> FALSE],
                state)
    /\ UNCHANGED <<store, call, evaluation, requests>>

\* useSession() yields a new value and the component renders again.
sessionChanges(state) ==
    /\ component # Null
    /\ ~component.crashed
    /\ component.renders < MaxRenders
    /\ state # component.useSession
    /\ component' = Render(component, state)
    /\ UNCHANGED <<store, call, evaluation, requests>>

NextClient ==
    \/ \E hook \in Hooks, permission \in Permissions,
          redirectTo \in RedirectTos, props \in ProviderProps,
          currentPath \in CurrentPaths, state \in SessionStates :
         mount(hook, permission, redirectTo, props, currentPath, state)
    \/ \E state \in SessionStates : sessionChanges(state)

SpecClient == Init /\ [][NextClient]_vars

---------------------------------------------------------------------------
(* Two requests through wrapped handlers at once, the configuration held   *)
(* fixed.  Each invocation has its own locals; the steps of the two         *)
(* interleave at the await points.                                          *)

RequestIds == {"first", "second"}

OtherRequest(id) == CHOOSE other \in RequestIds : other # id

PairConfigs ==
    {[auth |-> [name |-> "auth"],
      rolePermissions |-> [r \in TableRoles |->
                              IF r = "USER" THEN <<"a">> ELSE <<"a", "b">>],
      isUserActive |-> Undefined, activeStatus |-> "ACTIVE",
      messages |-> EmptyObject],
     [auth |-> [name |-> "auth"],
      rolePermissions |-> [r \in {"USER"} |-> <<"a">>],
      isUserActive |-> Undefined, activeStatus |-> Undefined,
      messages |-> [unauthorized |-> "Please sign in",
                    banned |-> "Account suspended",
                    insufficientPermissions |-> "Not allowed"]]}

\* What the accessor answers for a request.
PairSessions ==
    {Null,
     [user |-> [id |-> "u1", role |-> "USER", status |-> "ACTIVE"]],
     [user |-> [id |-> "u1", role |-> "ADMIN", status |-> "ACTIVE"]],
     [user |-> [id |-> "u1", role |-> "ADMIN", status |-> "BANNED"]]}

\* A request: the middleware it goes through and what its accessor call
\* and its checker will answer.
Scenarios ==
    [kind : {"withAuth"}, permission : {Undefined},
     session : PairSessions, checker : {"true"}]
    \cup [kind : {"withPermission"}, permission : {"b"},
          session : PairSessions, checker : {"true"}]
    \cup [kind : {"withCustomPermission"}, permission : {Undefined},
          session : PairSessions, checker : {"true", "false", "throws"}]

\* What the handler answers to a request.
ResponseTo(id) ==
    IF id = "first" THEN NextResponseJson("success", 200)
    ELSE NextResponseJson("Not found", 404)

InitPair ==
    /\ \E config \in PairConfigs :
         /\ authFn = config.auth
         /\ permissionConfig = [rolePermissions |-> config.rolePermissions,
                                isUserActive |-> config.isUserActive,
                                activeStatus |-> config.activeStatus,
                                messages |-> config.messages]
         /\ lastConfigure = config
    /\ call = IdleCall
    /\ evaluation = Null
    /\ component = Null
    /\ requests \in [RequestIds -> [scenario : Scenarios, call : {IdleCall}]]

\* The wrapped handler is called with a request.
Enter(scenario) ==
    LET request == [bodyUsed |-> FALSE]
        context == [params |-> RouteParams]
    IN  CASE scenario.kind = "withAuth" -> withAuthEnter(request, context)
          [] scenario.kind = "withPermission" ->
                withPermissionEnter(scenario.permission, request, context)
          [] scenario.kind = "withCustomPermission" ->
                withCustomPermissionEnter(EmptyObject, request, context)

\* The invocation continues with the result of its `await auth()`.
AfterAuth(suspended, session) ==
    CASE suspended.kind = "withAuth" -> withAuthAfterAuth(suspended, session)
      [] suspended.kind = "withPermission" ->
            withPermissionAfterAuth(suspended, session)
      [] suspended.kind = "withCustomPermission" ->
            withCustomPermissionAfterAuth(suspended, session)

\* Mutant: the validated session is kept in a module-level variable, which
\* the other request has overwritten if it got its session meanwhile.
LocalSession_ModuleLevel(id) ==
    LET other == requests[OtherRequest(id)].call
    IN  IF other.authResult # Null /\ other.authResult.session # Null
        THEN other.authResult.session
        ELSE requests[id].call.authResult.session

\* The local `session` of an invocation, read after `await checker(...)`.
LocalSession(id) == requests[id].call.authResult.session

enter(id) ==
    /\ requests[id].call.pc = "idle"
    /\ requests' = [requests EXCEPT ![id].call = Enter(requests[id].scenario)]
    /\ UNCHANGED <<store, call, evaluation, component>>

accessorResolves(id) ==
    /\ requests[id].call.pc = "awaitAuth"
    /\ requests' = [requests EXCEPT ![id].call =
                       AfterAuth(@, requests[id].scenario.session)]
    /\ UNCHANGED <<store, call, evaluation, component>>

checkerSettles(id) ==
    /\ requests[id].call.pc = "awaitChecker"
    /\ LET result == requests[id].scenario.checker
           c == [requests[id].call EXCEPT
                    !.checker = [readsBody |-> FALSE, result |-> result],
                    !.authResult.session = LocalSession(id)]
       IN  requests' = [requests EXCEPT ![id].call = AfterChecker(c, result)]
    /\ UNCHANGED <<store, call, evaluation, component>>

handlerSettles(id) ==
    /\ requests[id].call.pc = "awaitHandler"
    /\ requests' = [requests EXCEPT ![id].call =
                       AfterHandler(@, ResponseTo(id))]
    /\ UNCHANGED <<store, call, evaluation, component>>

NextPair ==
    \E id \in RequestIds :
       \/ enter(id)
       \/ accessorResolves(id)
       \/ checkerSettles(id)
       \/ handlerSettles(id)

SpecPair == InitPair /\ [][NextPair]_vars

---------------------------------------------------------------------------
(* Vocabulary of the properties, stated independently of the operators     *)
(* above.                                                                  *)

Done == call.pc = "done"

Returned == Done /\ "returns" \in DOMAIN call.outcome

Threw == Done /\ "throws" \in DOMAIN call.outcome

HandlerInvoked == call.handlerArgs # Null

Authenticated == call.session # Null /\ "user" \in DOMAIN call.session

\* The role's own table entry lists the permission.
Grants(table, role, permission) ==
    /\ role \in DOMAIN table
    /\ permission \in {table[role][i] : i \in DOMAIN table[role]}

\* The active-status rule as the specification words it.
RuleAccepts(config, user) ==
    CASE config.isUserActive # Undefined ->
            ApplyIsUserActive(config.isUserActive, user)
      [] config.isUserActive = Undefined /\ config.activeStatus # Undefined ->
            user.status = config.activeStatus
      [] OTHER -> TRUE

Supplied(object, key) == key \in DOMAIN object

\* the value of an optional key when it was supplied, else the default
SuppliedOr(object, key, dflt) ==
    IF Supplied(object, key) THEN object[key] ELSE dflt

\* the same, an empty string or a zero counting as not supplied
NonEmptyOr(object, key, dflt) ==
    IF Supplied(object, key) /\ object[key] \notin {"", Undefined}
    THEN object[key] ELSE dflt

NonZeroOr(object, key, dflt) ==
    IF Supplied(object, key) /\ object[key] # 0 THEN object[key] ELSE dflt

DefaultBanned == "Your account has been banned"

DefaultInsufficient == "Insufficient permissions"

IsBannedDenial(response, config) ==
    /\ response # Null
    /\ response.status = 403
    /\ response.message \in {DefaultBanned,
                             SuppliedOr(config.messages, "banned", DefaultBanned)}

IsInsufficientDenial(response, config) ==
    /\ response # Null
    /\ response.status = 403
    /\ response.message \in
         {DefaultInsufficient,
          SuppliedOr(config.messages, "insufficientPermissions",
                     DefaultInsufficient)}

\* The denial (or Null) that a finished invocation handed back.
ReturnedError ==
    IF call.kind \in {"requireAuth", "requireUserCan"}
    THEN call.outcome.returns.error
    ELSE IF HandlerInvoked THEN Null ELSE call.outcome.returns

---------------------------------------------------------------------------
(* C1 - C10 *)

C3_WithAuth ==
    (call.kind = "withAuth" /\ call.authResult # Null) =>
      /\ call.authResult.error # Null =>
           /\ Done
           /\ ~HandlerInvoked
           /\ call.outcome = Returns(call.authResult.error)
      /\ call.authResult.error = Null =>
           /\ HandlerInvoked
           /\ call.handlerArgs.request = "request"
           /\ call.handlerArgs.context.session = call.session
           /\ call.session # Null
           /\ \A k \in DOMAIN call.context \ {"session"} :
                call.handlerArgs.context[k] = call.context[k]
           /\ Done => /\ call.handlerResult \in HandlerResponses
                      /\ call.outcome = Returns(call.handlerResult)

C3_Witness ==
    /\ call.kind = "withAuth"
    /\ Returned
    /\ HandlerInvoked
    /\ "session" \in DOMAIN call.context
    /\ call.handlerArgs.context.session = call.session
    /\ call.outcome.returns = call.handlerResult

\* C4: requireAuth returns a 401 denial and a null session when the
\* accessor yields no session or a session without a user, and otherwise
\* the accessor's session with a null error.
C4_RequireAuth ==
    (call.kind = "requireAuth" /\ Done /\ call.auth # Null) =>
      /\ Returned
      /\ IF Authenticated
         THEN call.outcome.returns = [session |-> call.session, error |-> Null]
         ELSE /\ call.outcome.returns.session = Null
              /\ call.outcome.returns.error # Null
              /\ call.outcome.returns.error.status = 401

C4_Witness ==
    /\ call.kind = "requireAuth"
    /\ Returned
    /\ call.auth = [name |-> "authNull"]
    /\ call.session = Null
    /\ call.outcome.returns.session = Null
    /\ call.outcome.returns.error.status = 401

\* C5: the message of every 401 denial, from requireAuth, requireUserCan
\* and the three middlewares, is messages.unauthorized when that is
\* configured and "Unauthorized" otherwise.
C5_UnauthorizedMessage ==
    (Returned /\ ~Authenticated /\ permissionConfig # Null) =>
      /\ ReturnedError # Null
      /\ ReturnedError.status = 401
      /\ ReturnedError.message =
           SuppliedOr(permissionConfig.messages, "unauthorized", "Unauthorized")

C7_PermissionDecision ==
    (/\ call.kind = "requireUserCan" /\ Done /\ Authenticated
     /\ RuleAccepts(call.config, call.session.user)) =>
      /\ Returned
      /\ call.outcome.returns =
           IF Grants(call.config.rolePermissions, call.session.user.role,
                     call.permission)
           THEN [session |-> call.session, error |-> Null]
           ELSE [error |-> [message |-> SuppliedOr(call.config.messages,
                                                   "insufficientPermissions",
                                                   DefaultInsufficient),
                            status |-> 403],
                 session |-> Null]

\* C8: every AuthResult that requireAuth or requireUserCan returns, and
\* every one a middleware receives, has exactly one side populated.
C8_ExactlyOneSide ==
    call.authResult # Null =>
      \/ call.authResult.session # Null /\ call.authResult.error = Null
      \/ call.authResult.error # Null /\ call.authResult.session = Null

C8_Witness ==
    /\ call.kind = "requireUserCan"
    /\ Returned
    /\ call.session = SessionWithoutUser
    /\ call.outcome.returns = call.authResult
    /\ call.authResult.error # Null
    /\ call.authResult.session = Null

\* C9 as written: the custom denial carries options.errorMessage and
\* options.errorStatus for every supplied value.
C9_CustomDenialAnyValue ==
    (call.kind = "withCustomPermission" /\ Done /\ call.canAccess = "false") =>
      /\ ~HandlerInvoked
      /\ call.outcome =
           Returns([message |-> SuppliedOr(call.options, "errorMessage",
                                           DefaultInsufficient),
                    status |-> SuppliedOr(call.options, "errorStatus", 403)])

\* C9, amended: when authentication succeeds and the checker returns
\* false, the handler is not invoked and the response carries
\* options.errorMessage unless that is absent or the empty string (then
\* "Insufficient permissions") and options.errorStatus unless that is
\* absent or 0 (then 403).
C9_CustomDenial ==
    (call.kind = "withCustomPermission" /\ Done /\ call.canAccess = "false") =>
      /\ ~HandlerInvoked
      /\ call.outcome =
           Returns([message |-> NonEmptyOr(call.options, "errorMessage",
                                           DefaultInsufficient),
                    status |-> NonZeroOr(call.options, "errorStatus", 403)])

C9_Witness ==
    /\ call.kind = "withCustomPermission"
    /\ Done
    /\ call.canAccess = "false"
    /\ call.options = [errorMessage |-> "Not your building", errorStatus |-> 404]
    /\ call.outcome = Returns([message |-> "Not your building", status |-> 404])

\* C10: in withCustomPermission the checker gets a duplicate of the request
\* and the handler the request itself, whose body is unread when the
\* handler starts whatever the checker did to its copy.
C10_HandlerGetsUnreadRequest ==
    call.kind = "withCustomPermission" =>
      /\ call.checkerArgs # Null =>
           /\ call.checkerArgs.request # "request"
           /\ call.clonedRequest # Null
      /\ HandlerInvoked =>
           /\ call.handlerArgs.request = "request"
           /\ ~call.handlerArgs.bodyUsed
           /\ ~call.request.bodyUsed

C10_Witness ==
    /\ call.kind = "withCustomPermission"
    /\ HandlerInvoked
    /\ call.clonedRequest.bodyUsed
    /\ ~call.handlerArgs.bodyUsed

---------------------------------------------------------------------------
(* C11 - C20 *)

\* Neither configured yet, or reset since the latest configurePermissions.
Unconfigured == lastConfigure \in {Null, WasReset}

\* C11: after any sequence of configurePermissions and resetConfig calls,
\* getAuth and getPermissionConfig throw NotConfigured exactly when
\* configurePermissions was never called or resetConfig was called since
\* its latest call; otherwise they return the value held.
C11_NotConfiguredExactly ==
    /\ getAuthThrows <=> Unconfigured
    /\ getPermissionConfigThrows <=> Unconfigured
    /\ ~Unconfigured => authFn \in AuthFns /\ permissionConfig # Null

C11_Witness ==
    /\ lastConfigure = WasReset
    /\ getAuthThrows
    /\ getPermissionConfigThrows
    /\ call.kind = "requireUserCan"
    /\ call.outcome = Throws(NotConfigured)

\* C12: a call to requireAuth, requireUserCan or checkPermission, or to a
\* handler wrapped by withAuth, withPermission or withCustomPermission, that
\* is made while the store is unconfigured throws NotConfigured: it returns
\* no response, calls no session accessor and invokes no handler.  A call
\* made once the store is configured (again) does not throw NotConfigured.
C12_UnconfiguredCallsThrow ==
    call.kind # "none" =>
      IF call.atCall.lastConfigure \in {Null, WasReset}
      THEN /\ call.pc = "done"
           /\ call.outcome = Throws(NotConfigured)
           /\ call.accessorCalls = 0
           /\ call.auth = Null
           /\ ~HandlerInvoked
           /\ call.checkerArgs = Null
      ELSE call.pc = "done" => call.outcome # Throws(NotConfigured)

C12_Witness ==
    /\ call.kind = "withCustomPermission"
    /\ call.atCall.lastConfigure = WasReset
    /\ lastConfigure = WasReset
    /\ call.outcome = Throws(NotConfigured)
    /\ call.accessorCalls = 0

\* C13: configurePermissions replaces both held values: whatever was
\* configured before, the store holds the session accessor, role table,
\* isUserActive, activeStatus and messages of the latest call, an omitted
\* optional key being unset and not inherited.
C13_LastWriteWins ==
    ~Unconfigured =>
      /\ authFn = lastConfigure.auth
      /\ permissionConfig =
           [rolePermissions |-> lastConfigure.rolePermissions,
            isUserActive |-> lastConfigure.isUserActive,
            activeStatus |-> lastConfigure.activeStatus,
            messages |-> lastConfigure.messages]

\* An invocation that began under a configuration with both optional rules
\* is still suspended or done; the latest configuration omits both.
C13_Witness ==
    /\ call.kind # "none"
    /\ call.atCall.lastConfigure \notin {Null, WasReset}
    /\ call.atCall.lastConfigure.isUserActive = "notBanned"
    /\ call.atCall.lastConfigure.activeStatus = "ACTIVE"
    /\ ~Unconfigured
    /\ lastConfigure.isUserActive = Undefined
    /\ lastConfigure.activeStatus = Undefined
    /\ permissionConfig.isUserActive = Undefined
    /\ permissionConfig.activeStatus = Undefined

\* C18: when the checker given to withCustomPermission throws, the
\* invocation ends by throwing that same exception: no denial (nor any other
\* response) is produced and the wrapped handler is not invoked.
C18_CheckerExceptionPropagates ==
    (call.checker # Null /\ call.checker.result = "throws") =>
      /\ Done
      /\ call.outcome = Throws(CheckerError)
      /\ ~Returned
      /\ ~HandlerInvoked
      /\ call.handlerResult = Null

\* The checker threw although a custom denial was configured in the options.
C18_Witness ==
    /\ call.kind = "withCustomPermission"
    /\ call.checker # Null /\ call.checker.result = "throws"
    /\ Supplied(call.options, "errorMessage")
    /\ Threw

\* The configuration that was in force when the invocation was made.
AtCall == call.atCall.lastConfigure

\* The invocation let the caller through with the session it resolved.
Allowed ==
    IF call.kind = "requireUserCan"
    THEN /\ Returned
         /\ call.outcome.returns = [session |-> call.session, error |-> Null]
    ELSE /\ HandlerInvoked
         /\ call.handlerArgs.context.session = call.session

\* C19: a requireUserCan / withPermission invocation decides with the
\* session accessor and the permission configuration that were held when it
\* was called, whatever configurePermissions and resetConfig do while it
\* awaits the accessor: the session comes from that accessor, and the
\* active-status rule, the table and the messages of the decision are all
\* those of that one configuration.
C19_SnapshotDecision ==
    (/\ call.kind \in {"requireUserCan", "withPermission"}
     /\ call.atCall.lastConfigure \notin {Null, WasReset}) =>
      /\ call.auth = AtCall.auth
      /\ call.pc # "awaitAuth" =>
           /\ call.session \in AccessorResults(AtCall.auth)
           /\ ~Authenticated =>
                /\ Returned /\ ~HandlerInvoked
                /\ ReturnedError # Null /\ ReturnedError.status = 401
           /\ (Authenticated /\ ~RuleAccepts(AtCall, call.session.user)) =>
                /\ Returned /\ ~HandlerInvoked
                /\ ReturnedError =
                     NextResponseJson(
                        NonEmptyOr(AtCall.messages, "banned", DefaultBanned),
                        403)
           /\ (/\ Authenticated
               /\ RuleAccepts(AtCall, call.session.user)
               /\ Grants(AtCall.rolePermissions, call.session.user.role,
                         call.permission)) =>
                Allowed
           /\ (/\ Authenticated
               /\ RuleAccepts(AtCall, call.session.user)
               /\ ~Grants(AtCall.rolePermissions, call.session.user.role,
                          call.permission)) =>
                /\ Done /\ ~HandlerInvoked
                /\ \/ call.outcome = Throws(TypeError)
                   \/ /\ Returned
                      /\ ReturnedError =
                           NextResponseJson(
                              NonEmptyOr(AtCall.messages,
                                         "insufficientPermissions",
                                         DefaultInsufficient),
                              403)

\* The configuration was replaced while the invocation was suspended, and
\* the two versions disagree on the decision: the one of the call grants,
\* the one now held would not.
C19_Witness ==
    /\ call.kind = "requireUserCan"
    /\ call.atCall.lastConfigure \notin {Null, WasReset}
    /\ ~Unconfigured
    /\ lastConfigure # AtCall
    /\ Authenticated
    /\ Grants(AtCall.rolePermissions, call.session.user.role, call.permission)
    /\ ~Grants(lastConfigure.rolePermissions, call.session.user.role,
               call.permission)
    /\ Allowed

\* A pure function was applied to its arguments.
Evaluated(fn) == evaluation.fn = fn /\ evaluation.result # Null

\* C14: userCan(R, P, T) returns true when the own entry of R in T lists P
\* and returns false otherwise, so it returns false on the empty table.
C14_UserCanIff ==
    Evaluated("userCan") =>
      evaluation.result =
         Returns(Grants(evaluation.rolePermissions, evaluation.userRole,
                        evaluation.permission))

\* userCan(R, p, T) is true
UserCanIsTrue(userRole, permission, rolePermissions) ==
    /\ ~userCanThrows(userRole, rolePermissions)
    /\ userCan(userRole, permission, rolePermissions)

\* C15: userCanAll(R, ps, T) is true exactly when userCan(R, p, T) is true
\* for every p of ps, and userCanAny(R, ps, T) exactly when it is true for
\* at least one p of ps; on the empty list userCanAny is false and
\* userCanAll is true.
C15_AllAndAny ==
    /\ Evaluated("userCanAll") =>
         /\ evaluation.result = Returns(TRUE) <=>
              \A i \in DOMAIN evaluation.permissions :
                 UserCanIsTrue(evaluation.userRole, evaluation.permissions[i],
                               evaluation.rolePermissions)
         /\ evaluation.permissions = <<>> => evaluation.result = Returns(TRUE)
    /\ Evaluated("userCanAny") =>
         /\ evaluation.result = Returns(TRUE) <=>
              \E i \in DOMAIN evaluation.permissions :
                 UserCanIsTrue(evaluation.userRole, evaluation.permissions[i],
                               evaluation.rolePermissions)
         /\ evaluation.permissions = <<>> => evaluation.result = Returns(FALSE)

\* The second of two permissions is the one the role holds.
C15_Witness ==
    /\ Evaluated("userCanAny")
    /\ evaluation.permissions = <<"b", "a">>
    /\ evaluation.userRole = "USER"
    /\ evaluation.rolePermissions = [r \in {"USER"} |-> <<"a">>]
    /\ evaluation.result = Returns(TRUE)

\* C16: userCan, userCanAny and userCanAll return a boolean for every role
\* string, permission and table; none of them raises an error.
C16_Total ==
    (/\ evaluation.fn \in {"userCan", "userCanAny", "userCanAll"}
     /\ evaluation.result # Null) =>
      evaluation.result \in {Returns(TRUE), Returns(FALSE)}

OwnerFieldPriority == <<"submittedByUserId", "userId", "ownerId">>

\* The value of the first owner field, in priority order, that the resource
\* exposes with a value outside `absent`; Undefined when there is none.
FirstExposed(resource, absent) ==
    LET found == {i \in DOMAIN OwnerFieldPriority :
                     /\ OwnerFieldPriority[i] \in DOMAIN resource
                     /\ resource[OwnerFieldPriority[i]] \notin absent}
    IN  IF found = {} THEN Undefined
        ELSE resource[OwnerFieldPriority[
                 CHOOSE i \in found : \A j \in found : i <= j]]

\* C17 as claimed: the first owner field with a non-null value is the one
\* compared with session.user.id.
C17_FirstNonNull ==
    Evaluated("checkOwnership") =>
      evaluation.result =
         Returns(FirstExposed(evaluation.resource, {NullId})
                   = evaluation.session.user.id)

\* C17: checkOwnership compares session.user.id with the first of
\* submittedByUserId, userId, ownerId that the resource exposes with a
\* value that is neither null nor the empty string, and with that one only;
\* when there is no such field the result is false.
C17_FirstNonEmpty ==
    Evaluated("checkOwnership") =>
      evaluation.result =
         Returns(FirstExposed(evaluation.resource, {NullId, ""})
                   = evaluation.session.user.id)

\* A lower-priority field holds the user's id, the first one another id.
C17_Witness ==
    /\ Evaluated("checkOwnership")
    /\ evaluation.resource =
         [f \in {"submittedByUserId", "userId"} |->
            IF f = "submittedByUserId" THEN "u2" ELSE "u1"]
    /\ evaluation.session.user.id = "u1"
    /\ evaluation.result = Returns(FALSE)

\* The sign-in address for a page: signinPath with the page's path as the
\* redirectTo query value.
SigninUrl(signinPath, currentPath) ==
    signinPath \o "?redirectTo=" \o encodeURIComponent(currentPath)

\* The session's role is granted the permission by the context's table.
ClientGrants(c) ==
    /\ c.useSession.data # Null
    /\ c.useSession.data.user.role # Undefined
    /\ Grants(c.context.rolePermissions, c.useSession.data.user.role,
              c.permission)

\* C20: after a render of a component using useRequireUserCan, no
\* navigation was issued while the status is loading; an unauthenticated
\* user was sent to signinPath; an authenticated user whose role lacks the
\* permission was sent to the redirectTo given, else to defaultRedirectTo;
\* an authenticated user holding the permission was not navigated.
C20_Navigation ==
    (component # Null /\ component.hook = "useRequireUserCan") =>
      LET c == component
          status == c.useSession.status
      IN  /\ status = "loading" => c.issued = <<>>
          /\ status = "unauthenticated" =>
               c.issued = <<[method |-> "replace",
                             url |-> SigninUrl(c.context.signinPath,
                                               c.currentPath)]>>
          /\ (status = "authenticated" /\ ~ClientGrants(c)) =>
               c.issued = <<[method |-> "push",
                             url |-> IF c.redirectTo # Undefined
                                     THEN c.redirectTo
                                     ELSE c.context.defaultRedirectTo]>>
          /\ (status = "authenticated" /\ ClientGrants(c)) => c.issued = <<>>

---------------------------------------------------------------------------
(* C21 - C30 *)

\* The one navigation useRequireAuthenticatedUser may issue for a component,
\* an override in `absent` counting as not given.
SigninNavigation(c, absent) ==
    [method |-> "replace",
     url |-> IF c.redirectTo \notin absent THEN c.redirectTo
             ELSE SigninUrl(c.context.signinPath, c.currentPath)]

\* C21 as claimed: any override that was given, the empty string included,
\* is the address an unauthenticated user is sent to.
C21_OverrideWhenGiven ==
    (/\ component # Null
     /\ component.hook = "useRequireAuthenticatedUser"
     /\ component.useSession.status = "unauthenticated") =>
      component.issued = <<SigninNavigation(component, {Undefined})>>

\* C21: useRequireAuthenticatedUser issues no navigation in a render whose
\* status is loading or authenticated; in a render that turns the status to
\* unauthenticated it issues one router.replace, to the override when that
\* is a non-empty string, else to signinPath with the encoded current path
\* as the redirectTo query value; over the component's life every
\* navigation issued is that one.
C21_SigninRedirect ==
    (component # Null /\ component.hook = "useRequireAuthenticatedUser") =>
      LET c == component
          status == c.useSession.status
      IN  /\ status \in {"loading", "authenticated"} => c.issued = <<>>
          /\ status = "unauthenticated" =>
               c.issued = <<SigninNavigation(c, {Undefined, ""})>>
          /\ \A i \in DOMAIN c.navigations :
               c.navigations[i] = SigninNavigation(c, {Undefined, ""})
          /\ ~c.crashed

\* After loading, the session turned out to be missing on a page with a
\* query string, and the sign-in address carries the encoded page address.
C21_Witness ==
    /\ component # Null
    /\ component.hook = "useRequireAuthenticatedUser"
    /\ component.renders = 2
    /\ component.useSession.status = "unauthenticated"
    /\ component.redirectTo = Undefined
    /\ component.context.signinPath = "/login"
    /\ component.issued =
         <<[method |-> "replace",
            url |-> "/login?redirectTo=%2Fadmin%3Ftab%3D1"]>>

\* A withCustomPermission invocation that has got the accessor's result.
CustomPastAuth ==
    /\ call.kind = "withCustomPermission"
    /\ call.auth # Null
    /\ call.pc # "awaitAuth"

\* The checker was called once, with the validated session, the incoming
\* context as received and the duplicate of the request.
CheckerCalledOnce ==
    /\ call.checkerCalls = 1
    /\ call.clonedRequest # Null
    /\ call.checkerArgs = [session |-> call.session,
                           context |-> call.context,
                           request |-> "clonedRequest"]

\* C22 as claimed: whenever authentication succeeds the checker is invoked
\* exactly once.
C22_CheckerOnSuccess ==
    (CustomPastAuth /\ Authenticated) => CheckerCalledOnce

\* C22: withCustomPermission authenticates, duplicates the request, runs
\* the checker and invokes the handler, in that order.  On an authentication
\* denial the 401 denial of requireAuth is the response whatever the options
\* say, nothing is duplicated and the checker is not invoked.  On success
\* with an unread request body the checker is invoked exactly once with the
\* validated session, the incoming context as received and the duplicate;
\* with a body already read the duplication throws a TypeError that ends
\* the invocation before the checker.  The handler is invoked only after
\* the checker returned true.
C22_StepOrder ==
    call.kind = "withCustomPermission" =>
      /\ call.pc = "awaitAuth" =>
           /\ call.clonedRequest = Null
           /\ call.checkerCalls = 0
           /\ call.handlerCalls = 0
      /\ (CustomPastAuth /\ ~Authenticated) =>
           /\ call.outcome = Returns(call.authResult.error)
           /\ call.authResult.error = NextResponseJson("Unauthorized", 401)
           /\ call.clonedRequest = Null
           /\ call.checkerCalls = 0
           /\ call.handlerCalls = 0
      /\ (CustomPastAuth /\ Authenticated /\ ~call.request.bodyUsed) =>
           CheckerCalledOnce
      /\ (CustomPastAuth /\ Authenticated /\ call.request.bodyUsed) =>
           /\ call.outcome = Throws(TypeError)
           /\ call.clonedRequest = Null
           /\ call.checkerCalls = 0
           /\ call.handlerCalls = 0
      /\ call.pc = "awaitChecker" => call.handlerCalls = 0
      /\ HandlerInvoked =>
           /\ call.checkerCalls = 1
           /\ call.checker # Null
           /\ call.checker.result = "true"

\* The checker was called with a context that carried a stale session key
\* and got that context as it came in; options for the denial were given.
C22_Witness ==
    /\ call.kind = "withCustomPermission"
    /\ call.pc = "awaitChecker"
    /\ call.context = [params |-> RouteParams, session |-> StaleSession]
    /\ call.checkerArgs.context = call.context
    /\ call.checkerArgs.session = call.session
    /\ call.session # StaleSession
    /\ call.checkerCalls = 1

Middlewares == {"withAuth", "withPermission", "withCustomPermission"}

\* C23: the context a wrapped handler receives has the keys of the incoming
\* context and `session`; it equals the incoming context on every other key
\* and its session is the validated session, whatever `session` the
\* incoming context carried.  The request handed on is the one received.
\* Throughout the invocation the caller's context is what it was at entry.
C23_ContextFrame ==
    /\ [](call.kind \in Middlewares /\ HandlerInvoked =>
            /\ DOMAIN call.handlerArgs.context
                 = DOMAIN call.context \cup {"session"}
            /\ \A k \in DOMAIN call.context \ {"session"} :
                 call.handlerArgs.context[k] = call.context[k]
            /\ call.handlerArgs.context.session = call.session
            /\ call.session = call.authResult.session
            /\ call.session # Null
            /\ call.handlerArgs.request = "request")
    /\ [][(call.kind \in Middlewares /\ call'.kind = call.kind) =>
            call'.context = call.context]_vars

\* A handler reached through withCustomPermission, the incoming context
\* carrying a session key of its own that is still there afterwards.
C23_Witness ==
    /\ call.kind = "withCustomPermission"
    /\ HandlerInvoked
    /\ call.context = [params |-> RouteParams, session |-> StaleSession]
    /\ call.handlerArgs.context.session # StaleSession
    /\ call.handlerArgs.context.params = RouteParams

\* The role table of the configuration in force when the invocation began.
TableAtCall ==
    IF call.atCall.lastConfigure \in {Null, WasReset} THEN Null
    ELSE call.atCall.lastConfigure.rolePermissions

\* What userCan(role, permission, table) does.
UserCanOutcome(role, permission, table) ==
    IF userCanThrows(role, table) THEN Throws(TypeError)
    ELSE Returns(userCan(role, permission, table))

\* C24: checkPermission(session, permission) does exactly what
\* userCan(session.user.role, permission, T) does, T being the table of the
\* latest configurePermissions at the moment of the call: for a direct call,
\* and for a call made by a withCustomPermission checker, where T is the
\* table at the time the checker runs and not the one held when the
\* invocation began.
C24_TableAtTheCall ==
    /\ (call.kind = "checkPermission" /\ TableAtCall # Null) =>
         call.outcome = UserCanOutcome(call.session.user.role,
                                       call.permission, TableAtCall)
    /\ (/\ call.kind = "withCustomPermission"
        /\ call.checker # Null
        /\ "checkPermission" \in DOMAIN call.checker
        /\ call.checker.checkPermission.tableThen # Null) =>
         call.checker.checkPermission.outcome =
            UserCanOutcome(call.session.user.role,
                           call.checker.checkPermission.permission,
                           call.checker.checkPermission.tableThen)

\* The table was replaced while withCustomPermission awaited the accessor:
\* the checker's checkPermission grants by the new table what the table at
\* entry would not.
C24_Witness ==
    /\ call.kind = "withCustomPermission"
    /\ call.checker # Null
    /\ "checkPermission" \in DOMAIN call.checker
    /\ call.checker.checkPermission.outcome = Returns(TRUE)
    /\ ~Grants(TableAtCall, call.session.user.role,
               call.checker.checkPermission.permission)
    /\ HandlerInvoked

\* C25: withAuth and withCustomPermission only authenticate.  Whatever the
\* active-status rule and the role table say about the user, withAuth invokes
\* the handler for every session with a user, and withCustomPermission
\* invokes it whenever the checker returned true; the only denial withAuth
\* gives is the 401 one, and withCustomPermission gives a 403 only on the
\* checker's word.
C25_AuthenticationOnly ==
    /\ (call.kind = "withAuth" /\ call.auth # Null /\ call.pc # "awaitAuth") =>
         /\ Authenticated <=> HandlerInvoked
         /\ ~Authenticated =>
              call.outcome = Returns(NextResponseJson("Unauthorized", 401))
    /\ (call.kind = "withCustomPermission" /\ call.checker # Null) =>
         /\ Authenticated
         /\ call.checker.result = "true" <=> HandlerInvoked
    /\ (call.kind = "withCustomPermission" /\ Returned /\ ~HandlerInvoked) =>
         \/ ~Authenticated /\ call.outcome.returns.status = 401
         \/ call.checker # Null /\ call.checker.result = "false"

\* A user the configured rule rejects, with a role the table does not know,
\* is in the handler behind withAuth.
C25_Witness ==
    /\ call.kind = "withAuth"
    /\ HandlerInvoked
    /\ permissionConfig.activeStatus = "ACTIVE"
    /\ permissionConfig.isUserActive = "notBanned"
    /\ call.session.user.status = "BANNED"
    /\ ~RuleAccepts(permissionConfig, call.session.user)
    /\ call.session.user.role \notin DOMAIN permissionConfig.rolePermissions

\* All the checks of the middleware in use have passed.
ChecksPassed ==
    /\ Authenticated
    /\ call.kind = "withPermission" =>
         /\ RuleAccepts(call.config, call.session.user)
         /\ Grants(call.config.rolePermissions, call.session.user.role,
                   call.permission)
    /\ call.kind = "withCustomPermission" =>
         call.checker # Null /\ call.checker.result = "true"

\* The three ways an invocation ends.
EndedInDenial ==
    /\ Returned
    /\ call.handlerCalls = 0 /\ call.handlerResult = Null
    /\ call.authResult # Null
    /\ \/ call.authResult.error # Null
          /\ call.outcome.returns = call.authResult.error
       \/ call.canAccess = "false"

EndedInHandlerResult ==
    /\ Returned
    /\ call.handlerCalls = 1
    /\ call.handlerResult \in HandlerResponses
    /\ call.outcome.returns = call.handlerResult

EndedInException == Threw /\ call.handlerCalls = 0

\* C26: an invocation of a wrapped handler calls the handler at most once,
\* and once when all checks of its middleware have passed; when it is over
\* it has ended in exactly one of a denial response, the handler's result
\* and a propagated exception.
C26_HandlerAtMostOnce ==
    call.kind \in Middlewares =>
      /\ call.handlerCalls \in {0, 1}
      /\ HandlerInvoked <=> call.handlerCalls = 1
      /\ (call.auth # Null /\ call.pc # "awaitAuth" /\ ChecksPassed) =>
           call.handlerCalls = 1
      /\ call.handlerCalls = 1 => ChecksPassed
      /\ Done =>
           \/ EndedInDenial /\ ~EndedInHandlerResult /\ ~EndedInException
           \/ ~EndedInDenial /\ EndedInHandlerResult /\ ~EndedInException
           \/ ~EndedInDenial /\ ~EndedInHandlerResult /\ EndedInException

\* withPermission let an administrator through and the handler, called
\* once, answered 404: the response is the handler's, not a denial.
C26_Witness ==
    /\ call.kind = "withPermission"
    /\ Done
    /\ call.handlerCalls = 1
    /\ call.session.user.role = "ADMIN"
    /\ call.outcome = Returns(NextResponseJson("Not found", 404))
    /\ EndedInHandlerResult

\* C27: a call of requireAuth or requireUserCan and an invocation of a
\* wrapped handler, made with the store configured, calls the configured
\* session accessor once.  While its result is awaited nothing has been
\* evaluated: no resolver result, no duplicate, no checker, no handler.  The
\* session the checks saw is the one the checker is given and the one in
\* the handler's context.
C27_AccessorOnceAndFirst ==
    (/\ call.kind \in Middlewares \cup {"requireAuth", "requireUserCan"}
     /\ call.atCall.lastConfigure \notin {Null, WasReset}) =>
      /\ call.accessorCalls = 1
      /\ call.auth = call.atCall.lastConfigure.auth
      /\ call.pc = "awaitAuth" =>
           /\ call.session = Null
           /\ call.authResult = Null
           /\ call.clonedRequest = Null
           /\ call.checkerCalls = 0
           /\ call.handlerCalls = 0
           /\ call.outcome = Null
      /\ call.pc # "awaitAuth" => call.session \in AccessorResults(call.auth)
      /\ (call.authResult # Null /\ call.authResult.session # Null) =>
           call.authResult.session = call.session
      /\ call.checkerArgs # Null => call.checkerArgs.session = call.session
      /\ HandlerInvoked => call.handlerArgs.context.session = call.session

\* A handler behind withPermission, after one accessor call, holds in its
\* context the session that was checked.
C27_Witness ==
    /\ call.kind = "withPermission"
    /\ call.pc = "awaitHandler"
    /\ call.accessorCalls = 1
    /\ call.session.user.role = "USER"
    /\ call.session.user.status = "ACTIVE"
    /\ call.handlerArgs.context.session = call.session

\* C29: the stored session accessor and the stored permission
\* configuration are both set or both unset, so getAuth throws NotConfigured
\* exactly when getPermissionConfig does.
C29_BothOrNeither ==
    /\ authFn = Null <=> permissionConfig = Null
    /\ getAuthThrows <=> getPermissionConfigThrows
    /\ authFn # Null => authFn \in AuthFns

\* Both were set and both are unset again: checkPermission, which asks only
\* for the permission configuration, throws as requireAuth would.
C29_Witness ==
    /\ lastConfigure = WasReset
    /\ authFn = Null
    /\ permissionConfig = Null
    /\ call.kind = "checkPermission"
    /\ call.outcome = Throws(NotConfigured)

\* The invocation of a request when nothing else runs: its steps one after
\* the other.
RunAlone(id) ==
    LET scenario == requests[id].scenario
        entered == Enter(scenario)
        authenticated ==
            IF entered.pc = "awaitAuth"
            THEN AfterAuth(entered, scenario.session) ELSE entered
        checked ==
            IF authenticated.pc = "awaitChecker"
            THEN AfterChecker([authenticated EXCEPT !.checker =
                                  [readsBody |-> FALSE,
                                   result |-> scenario.checker]],
                              scenario.checker)
            ELSE authenticated
    IN  IF checked.pc = "awaitHandler"
        THEN AfterHandler(checked, ResponseTo(id)) ELSE checked

\* C28: with the configuration fixed and two requests interleaving at their
\* await points, a request that is over has the outcome, and has handed its
\* handler the arguments, that it has when it runs alone; the session in a
\* handler's context is the one the request's own accessor call returned.
C28_NoInterference ==
    requests # Null =>
      \A id \in RequestIds :
         LET c == requests[id].call
         IN  /\ c.pc = "done" =>
                  /\ c.outcome = RunAlone(id).outcome
                  /\ c.handlerArgs = RunAlone(id).handlerArgs
             /\ c.handlerArgs # Null =>
                  c.handlerArgs.context.session = requests[id].scenario.session
             /\ c.checkerArgs # Null =>
                  c.checkerArgs.session = requests[id].scenario.session

\* Both requests are over, of two different users through
\* withCustomPermission: one was let through to the handler, the other
\* refused by its checker.
C28_Witness ==
    /\ requests # Null
    /\ requests["first"].scenario.kind = "withCustomPermission"
    /\ requests["second"].scenario.kind = "withCustomPermission"
    /\ requests["first"].scenario.session # requests["second"].scenario.session
    /\ requests["first"].call.pc = "done"
    /\ requests["second"].call.pc = "done"
    /\ requests["first"].call.outcome = Returns(ResponseTo("first"))
    /\ requests["first"].call.handlerArgs.context.session
         = requests["first"].scenario.session
    /\ requests["second"].call.canAccess = "false"

\* C30: an invocation of a wrapped handler comes to an end, in a denial,
\* the handler's result or an exception, once the accessor, the checker and
\* the handler have each answered; on the way the middleware calls each of
\* them at most once.
C30_Completes ==
    /\ [](call.kind \in Middlewares =>
            /\ call.accessorCalls <= 1
            /\ call.checkerCalls <= 1
            /\ call.handlerCalls <= 1)
    /\ (call.kind \in Middlewares /\ ~Done)
         ~> (Done /\ (EndedInDenial \/ EndedInHandlerResult \/ EndedInException))

\* An invocation that awaited all three parties is over.
C30_Witness ==
    /\ call.kind = "withCustomPermission"
    /\ Done
    /\ call.accessorCalls = 1
    /\ call.checkerCalls = 1
    /\ call.handlerCalls = 1
    /\ call.checker.readsBody
    /\ EndedInHandlerResult

=============================================================================
